---------------------------- MODULE Spec2Model ----------------------------
(* A model of the two automation scripts of mojo-zlib:                     *)
(*   scripts/test.py  - the sequential test runner,                        *)
(*   scripts/util.py  - recipe generation, conda build, publish and the    *)
(*                      staging directory.                                 *)
(* Strings are sequences of one-character strings, so that indexing,       *)
(* slicing, suffix tests and lexicographic order are computed as Python    *)
(* computes them.                                                          *)
EXTENDS Integers, Sequences, FiniteSets, TLC

VARIABLES
    \* ---- scripts/test.py ----
    tree,         \* the files below tests/: a set of [root, file] records
    test_files,   \* main: the list find_mojo_test_files returned
    t_pc,         \* main: position ("start", "loop", "running", "summary", "done")
    i,            \* main: the loop's enumerate index (1-based)
    passed,       \* main: passed counter
    failed,       \* main: failed counter
    exit_code,    \* the process exit status (NotExited while main runs)
    t_log,        \* history: subprocess launches and returns, in order
    \* ---- scripts/util.py: format_dependency ----
    dep_name,     \* argument name
    dep_version,  \* argument version
    dep_result,   \* the returned string, or IndexError
    fd_pc,        \* "call" before the call, "returned" after it
    \* ---- scripts/util.py: publish ----
    build_dir,    \* the names of the files in CONDA_BUILD_PATH
    build_dir0,   \* history: build_dir when publish was called
    pub_files,    \* the list glob.glob returned
    pub_k,        \* position of the for loop in pub_files (1-based)
    pub_pc,       \* "start", "upload", "remove", "done", "aborted"
    pub_log,      \* history: upload attempts and os.remove calls, in order
    \* ---- scripts/util.py: build_conda_package, prepare_temp_directory ----
    deps,         \* PROJECT_CONFIG["dependencies"], in mapping order
    readme,       \* whether README.md exists
    recipe_file,  \* the content of recipe.yaml, or NoFile
    temp_dir,     \* TEMP_DIR: absent, a regular file, or a directory with files
    artifact_gen, \* the number of artifacts mojo package has written
    pc,           \* per instance: position in its command
    calls,        \* per instance: calls of prepare_temp_directory started
    err,          \* per instance: the exception that ended its command, or ""
    pre_recipe,   \* history, per instance: recipe.yaml when RECIPE_PATH.exists() ran
    gen_count,    \* history, per instance: completed generate_recipe calls
    build_runs,   \* history, per instance: invocations of pixi build
    seen_recipe,  \* history, per instance: recipe.yaml when pixi build ran
    pre_files,    \* history, per instance: TEMP_DIR when the call started
    seen_dir,     \* history, per instance: kind of TEMP_DIR when mojo package ran
    last_artifact,\* history, per instance: the artifact its last compile wrote
    clobbered     \* history, per instance: another instance deleted or created
                  \* the shared path between this one's check and its last use

testVars == <<tree, test_files, t_pc, i, passed, failed, exit_code, t_log>>
fmtVars  == <<dep_name, dep_version, dep_result, fd_pc>>
pubVars  == <<build_dir, build_dir0, pub_files, pub_k, pub_pc, pub_log>>
pkgVars  == <<deps, readme, recipe_file, temp_dir, artifact_gen, pc, calls, err,
              pre_recipe, gen_count, build_runs, seen_recipe, pre_files,
              seen_dir, last_artifact, clobbered>>

vars == <<testVars, fmtVars, pubVars, pkgVars>>

(***************************************************************************)
(* Bounds of the model.                                                    *)
(***************************************************************************)
\* the longest version specifier passed to format_dependency
MaxLen == 3
\* the most files the tests/ tree holds
MaxFiles == 3
\* the most files CONDA_BUILD_PATH holds
MaxArtifacts == 3
\* the most entries of PROJECT_CONFIG["dependencies"]
MaxDeps == 2
\* the most calls of prepare_temp_directory one instance makes
MaxCalls == 3

(***************************************************************************)
(* Strings.                                                                *)
(***************************************************************************)
\* code points of the characters the model uses (Python compares str by code point)
Ord(c) ==
    CASE c = " " -> 32
      [] c = "." -> 46
      [] c = "/" -> 47
      [] c = "1" -> 49
      [] c = "<" -> 60
      [] c = "=" -> 61
      [] c = ">" -> 62
      [] c = "a" -> 97
      [] c = "b" -> 98
      [] c = "j" -> 106
      [] c = "m" -> 109
      [] c = "o" -> 111
      [] c = "p" -> 112
      [] c = "s" -> 115
      [] c = "t" -> 116
      [] c = "y" -> 121
      [] c = "z" -> 122

\* s[start:] of Python, start a 0-based offset (slicing never raises)
SliceFrom(s, start) ==
    IF start >= Len(s) THEN <<>> ELSE SubSeq(s, start + 1, Len(s))

\* s[:stop] of Python
SliceTo(s, stop) ==
    IF stop >= Len(s) THEN s ELSE SubSeq(s, 1, stop)

\* s.endswith(suffix)
EndsWith(s, suffix) ==
    /\ Len(suffix) <= Len(s)
    /\ SliceFrom(s, Len(s) - Len(suffix)) = suffix

\* a < b on Python str: lexicographic by code point, a proper prefix is smaller
RECURSIVE StrLess(_, _)
StrLess(a, b) ==
    IF b = <<>> THEN FALSE
    ELSE IF a = <<>> THEN TRUE
    ELSE IF Head(a) # Head(b) THEN Ord(Head(a)) < Ord(Head(b))
    ELSE StrLess(Tail(a), Tail(b))

\* all sequences over S of length at most n
RECURSIVE SeqUpTo(_, _)
SeqUpTo(S, n) ==
    IF n = 0 THEN {<<>>}
    ELSE LET shorter == SeqUpTo(S, n - 1)
         IN  shorter \cup {Append(s, c) : s \in shorter, c \in S}

Range(s) == {s[k] : k \in 1..Len(s)}

(***************************************************************************)
(* scripts/util.py: format_dependency                                      *)
(***************************************************************************)
\* the exception version[0] or version[1] raises out of range: no string of
\* one-character elements equals it
IndexError == <<"IndexError">>

\* a format_dependency that keeps the "=" of a two-character operator
format_dependency_bug_start(name, version) ==
    IF Len(version) = 0 THEN IndexError
    ELSE IF version[1] \in {"<", ">"}
    THEN IF Len(version) < 2 THEN IndexError
         ELSE IF version[2] # "="
         THEN name \o <<" ">> \o <<version[1]>> \o <<" ">> \o SliceFrom(version, 1)
         ELSE name \o <<" ">> \o SliceTo(version, 2) \o <<" ">> \o SliceFrom(version, 1)
    ELSE name \o <<" ">> \o <<"=", "=">> \o <<" ">> \o SliceFrom(version, 0)

format_dependency(name, version) ==
    IF Len(version) = 0 THEN IndexError                \* version[0]
    ELSE IF version[1] \in {"<", ">"}
    THEN IF Len(version) < 2 THEN IndexError           \* version[1]
         ELSE IF version[2] # "="
         THEN name \o <<" ">> \o <<version[1]>> \o <<" ">> \o SliceFrom(version, 1)
         ELSE name \o <<" ">> \o SliceTo(version, 2) \o <<" ">> \o SliceFrom(version, 2)
    ELSE name \o <<" ">> \o <<"=", "=">> \o <<" ">> \o SliceFrom(version, 0)

SpecChars == {"<", ">", "=", "1", "."}
DepNames == {<<"z">>, <<"a">>, <<"a", "b">>}

(***************************************************************************)
(* scripts/test.py                                                         *)
(***************************************************************************)
\* exit_code while the process has not exited
NotExited == -1
DotMojo == <<".", "m", "o", "j", "o">>

\* directories os.walk visits and the file names they may hold
Roots == {<<"t">>, <<"t", "/", "a">>}
FileNames == {<<"a">> \o DotMojo, <<"b">> \o DotMojo,
              <<"a", ".", "p", "y">>, <<"m", "o", "j", "o">>}
AllFiles == [root : Roots, file : FileNames]

\* os.path.join(root, file)
join(root, file) == root \o <<"/">> \o file

\* sorted(list) for a list of distinct strings
RECURSIVE sorted(_)
sorted(S) ==
    IF S = {} THEN <<>>
    ELSE LET m == CHOOSE x \in S : \A y \in S \ {x} : StrLess(x, y)
         IN  <<m>> \o sorted(S \ {m})

find_mojo_test_files(tests_dir) ==
    sorted({join(f.root, f.file) : f \in {g \in tests_dir : EndsWith(g.file, DotMojo)}})

\* what subprocess.run can do: return a completed process, or raise
Outcomes ==
    [kind : {"exit"}, returncode : {0, 1}, stdout : {"", "out"}, stderr : {"", "err"}, msg : {""}]
    \cup [kind : {"raise"}, returncode : {0}, stdout : {""}, stderr : {""}, msg : {"No such file: pixi"}]

\* run_test's (success, stdout, stderr); the duration is not modelled
run_test_bug_raise_passes(o) ==
    IF o.kind = "exit"
    THEN [success |-> o.returncode = 0, stdout |-> o.stdout, stderr |-> o.stderr]
    ELSE [success |-> TRUE, stdout |-> "", stderr |-> o.msg]

run_test(o) ==
    IF o.kind = "exit"
    THEN [success |-> o.returncode = 0, stdout |-> o.stdout, stderr |-> o.stderr]
    ELSE [success |-> FALSE, stdout |-> "", stderr |-> o.msg]

\* main's counters after one file: <<passed, failed>>
count_bug_both(success, p, f) ==
    IF success THEN <<p + 1, f>> ELSE <<p + 1, f + 1>>

count(success, p, f) ==
    IF success THEN <<p + 1, f>> ELSE <<p, f + 1>>

\* the status main ends with once the loop is over
exit_status_bug_inverted(f) == IF f > 0 THEN 0 ELSE 1

exit_status(f) == IF f > 0 THEN 1 ELSE 0

\* where main goes after file number k of n
after_file_bug_stop_on_failure(success, k, n) ==
    IF k >= n \/ ~success THEN "summary" ELSE "loop"

after_file(success, k, n) ==
    IF k >= n THEN "summary" ELSE "loop"

InitTest ==
    /\ tree \in {T \in SUBSET AllFiles : Cardinality(T) <= MaxFiles}
    /\ test_files = <<>>
    /\ t_pc = "start"
    /\ i = 0
    /\ passed = 0
    /\ failed = 0
    /\ exit_code = NotExited
    /\ t_log = <<>>

\* main, lines 37-51: discovery, the early return on no files, the counters
Discover ==
    /\ t_pc = "start"
    /\ test_files' = find_mojo_test_files(tree)
    /\ IF test_files' = <<>>
       THEN /\ t_pc' = "done"
            /\ exit_code' = 0
            /\ i' = i
       ELSE /\ t_pc' = "loop"
            /\ exit_code' = exit_code
            /\ i' = 1
    /\ passed' = 0
    /\ failed' = 0
    /\ UNCHANGED <<tree, t_log, fmtVars, pubVars, pkgVars>>

\* run_test, lines 22-28: subprocess.run is entered for test_files[i]
Launch ==
    /\ t_pc = "loop"
    /\ t_pc' = "running"
    /\ t_log' = Append(t_log, [ev |-> "start", file |-> test_files[i]])
    /\ UNCHANGED <<tree, test_files, i, passed, failed, exit_code, fmtVars, pubVars, pkgVars>>

\* run_test, lines 29-33, and main, lines 56-65: the call returns or raises
Return ==
    /\ t_pc = "running"
    /\ \E o \in Outcomes :
         LET r == run_test(o)
             c == count(r.success, passed, failed)
         IN  /\ t_log' = Append(t_log, [ev |-> "end", file |-> test_files[i],
                                        outcome |-> o, result |-> r])
             /\ passed' = c[1]
             /\ failed' = c[2]
             /\ t_pc' = after_file(r.success, i, Len(test_files))
    /\ i' = i + 1
    /\ UNCHANGED <<tree, test_files, exit_code, fmtVars, pubVars, pkgVars>>

\* main, lines 67-79: the summary and the exit status
Summary ==
    /\ t_pc = "summary"
    /\ exit_code' = exit_status(failed)
    /\ t_pc' = "done"
    /\ UNCHANGED <<tree, test_files, i, passed, failed, t_log, fmtVars, pubVars, pkgVars>>

NextTest == Discover \/ Launch \/ Return \/ Summary

IdleTest ==
    /\ tree = {}
    /\ test_files = <<>>
    /\ t_pc = "idle"
    /\ i = 0
    /\ passed = 0
    /\ failed = 0
    /\ exit_code = NotExited
    /\ t_log = <<>>

(***************************************************************************)
(* format_dependency applied to every name and specifier within the bound  *)
(***************************************************************************)
InitFormat ==
    /\ dep_name \in DepNames
    /\ dep_version \in SeqUpTo(SpecChars, MaxLen)
    /\ dep_result = <<>>
    /\ fd_pc = "call"

Format ==
    /\ fd_pc = "call"
    /\ dep_result' = format_dependency(dep_name, dep_version)
    /\ fd_pc' = "returned"
    /\ UNCHANGED <<dep_name, dep_version, testVars, pubVars, pkgVars>>

IdleFormat ==
    /\ dep_name = <<>>
    /\ dep_version = <<>>
    /\ dep_result = <<>>
    /\ fd_pc = "idle"


(***************************************************************************)
(* scripts/util.py: publish                                                *)
(***************************************************************************)
DotConda == <<".", "c", "o", "n", "d", "a">>

\* the file names CONDA_BUILD_PATH may hold
ArtifactNames == {<<"a">> \o DotConda, <<"b">> \o DotConda, <<"z">> \o DotConda,
                  <<".", "a">> \o DotConda, <<"a", ".", "p", "y">>}

\* glob.glob(f'{CONDA_BUILD_PATH}/*.conda'): the names the pattern matches; a
\* name starting with a dot is matched only by a pattern starting with a dot
glob_conda(dir) ==
    {n \in dir : EndsWith(n, DotConda) /\ n[1] # "."}

\* the orders in which glob may list a set of names
Orderings(S) ==
    {q \in [1..Cardinality(S) -> S] : \A a, b \in 1..Cardinality(S) : a # b => q[a] # q[b]}

\* what subprocess.run(..., check=True) can do for pixi upload: exit 0, raise
\* CalledProcessError on a non-zero exit, or raise OSError when pixi is missing
UploadOutcomes == {"exit 0", "CalledProcessError", "OSError"}

\* publish, lines 100-107: where the loop body goes after the upload attempt
after_upload_bug_reraise(o) ==
    IF o = "exit 0" THEN "remove" ELSE "aborted"

after_upload(o) ==
    IF o \in {"exit 0", "CalledProcessError"} THEN "remove" ELSE "aborted"

InitPublish ==
    /\ build_dir \in {D \in SUBSET ArtifactNames : Cardinality(D) <= MaxArtifacts}
    /\ build_dir0 = build_dir
    /\ pub_files = <<>>
    /\ pub_k = 0
    /\ pub_pc = "start"
    /\ pub_log = <<>>

\* publish, lines 97-98: the glob is evaluated once, before the loop
PublishGlob ==
    /\ pub_pc = "start"
    /\ pub_files' \in Orderings(glob_conda(build_dir))
    /\ pub_k' = 1
    /\ pub_pc' = IF pub_files' = <<>> THEN "done" ELSE "upload"
    /\ UNCHANGED <<build_dir, build_dir0, pub_log, testVars, fmtVars, pkgVars>>

\* publish, lines 99-106: one upload attempt
Upload ==
    /\ pub_pc = "upload"
    /\ \E o \in UploadOutcomes :
         /\ pub_log' = Append(pub_log, [ev |-> "upload", file |-> pub_files[pub_k], outcome |-> o])
         /\ pub_pc' = after_upload(o)
    /\ UNCHANGED <<build_dir, build_dir0, pub_files, pub_k, testVars, fmtVars, pkgVars>>

\* publish, line 107: os.remove(file), then the next file
Remove ==
    /\ pub_pc = "remove"
    /\ build_dir' = build_dir \ {pub_files[pub_k]}
    /\ pub_log' = Append(pub_log, [ev |-> "remove", file |-> pub_files[pub_k], outcome |-> ""])
    /\ pub_k' = pub_k + 1
    /\ pub_pc' = IF pub_k >= Len(pub_files) THEN "done" ELSE "upload"
    /\ UNCHANGED <<build_dir0, pub_files, testVars, fmtVars, pkgVars>>

NextPublish == PublishGlob \/ Upload \/ Remove

IdlePublish ==
    /\ build_dir = {}
    /\ build_dir0 = {}
    /\ pub_files = <<>>
    /\ pub_k = 0
    /\ pub_pc = "idle"
    /\ pub_log = <<>>

(***************************************************************************)
(* scripts/util.py: generate_recipe, build_conda_package,                  *)
(* prepare_temp_directory.  The files are shared by every instance of the  *)
(* commands: RECIPE_PATH and TEMP_DIR are fixed paths.                     *)
(***************************************************************************)
Procs == {1, 2}

NoFile == [origin |-> "absent", run |-> <<>>]
UserRecipe == [origin |-> "user", run |-> <<>>]

NoDir == [kind |-> "absent", files |-> {}]
PlainFile == [kind |-> "file", files |-> {}]
Dir(F) == [kind |-> "dir", files |-> F]

\* f"{TEMP_DIR}/{package}.mojopkg"
PackageFile == "zlib.mojopkg"
\* what an earlier run or the user may have left in TEMP_DIR
PriorFiles == {[name |-> PackageFile, gen |-> 0],
               [name |-> "old.mojopkg", gen |-> 0],
               [name |-> "zlib.mojopkg.part", gen |-> 0],
               [name |-> "notes.txt", gen |-> 0]}

\* the version specifiers a pixi.toml of the model may hold
DepVersions == {<<"1">>, <<">", "=", "1">>, <<"<", "1">>, <<"<">>, <<>>}
\* a mapping has no key twice
DepConfigs ==
    {d \in SeqUpTo([name : DepNames, version : DepVersions], MaxDeps) :
        \A a, b \in 1..Len(d) : a # b => d[a].name # d[b].name}

\* the configurations with at most one dependency
SmallConfigs == {d \in DepConfigs : Len(d) <= 1}

\* generate_recipe: the recipe it writes, or the exception that ends it before
\* anything is written (the file is opened last, line 90)
generate_recipe(dependencies, has_readme) ==
    LET run == [k \in 1..Len(dependencies) |->
                   format_dependency(dependencies[k].name, dependencies[k].version)]
    IN  IF \E k \in 1..Len(dependencies) : run[k] = IndexError
        THEN [err |-> "IndexError", recipe |-> NoFile]
        ELSE IF ~has_readme
        THEN [err |-> "FileNotFoundError: README.md", recipe |-> NoFile]
        ELSE [err |-> "", recipe |-> [origin |-> "generated", run |-> run]]

\* build_conda_package, line 132: not RECIPE_PATH.exists()
needs_generation_bug_always(file) == TRUE

needs_generation_bug_inverted(file) == file # NoFile

needs_generation(file) == file = NoFile

\* build_conda_package, lines 135-138: check=True raises on a non-zero exit
after_build_bug_unchecked(rc) == "b_remove"

after_build(rc) == IF rc = 0 THEN "b_remove" ELSE "b_aborted"

\* remove_temp_directory, line 112: TEMP_DIR.exists()
exists_bug_never(d) == FALSE

exists(d) == d.kind # "absent"

\* mojo package -o TEMP_DIR/<package>.mojopkg: the output file is (over)written
write_artifact(files, g) ==
    {f \in files : f.name # PackageFile} \cup {[name |-> PackageFile, gen |-> g]}

\* the instances other than p that are between their check of the recipe file
\* or of TEMP_DIR and their last use of it
Relying(p, window) == {r \in Procs \ {p} : pc[r] \in window}

Clobber(p, window) ==
    [r \in Procs |-> clobbered[r] \/ r \in Relying(p, window)]

InitPkg(Configs, Readmes, Recipes, Dirs) ==
    /\ deps \in Configs
    /\ readme \in Readmes
    /\ recipe_file \in Recipes
    /\ temp_dir \in Dirs
    /\ artifact_gen = 0
    /\ pc = [p \in Procs |-> "idle"]
    /\ calls = [p \in Procs |-> 0]
    /\ err = [p \in Procs |-> ""]
    /\ pre_recipe = [p \in Procs |-> NoFile]
    /\ gen_count = [p \in Procs |-> 0]
    /\ build_runs = [p \in Procs |-> <<>>]
    /\ seen_recipe = [p \in Procs |-> NoFile]
    /\ pre_files = [p \in Procs |-> NoDir]
    /\ seen_dir = [p \in Procs |-> "none"]
    /\ last_artifact = [p \in Procs |-> [name |-> "", gen |-> 0]]
    /\ clobbered = [p \in Procs |-> FALSE]

\* build_conda_package, lines 131-133: the recipe is generated when missing
BuildCheck(p) ==
    /\ pc[p] = "idle"
    /\ pre_recipe' = [pre_recipe EXCEPT ![p] = recipe_file]
    /\ clobbered' = [clobbered EXCEPT ![p] = FALSE]
    /\ LET g == generate_recipe(deps, readme)
       IN  IF needs_generation(recipe_file)
           THEN IF g.err = ""
                THEN /\ recipe_file' = g.recipe
                     /\ gen_count' = [gen_count EXCEPT ![p] = @ + 1]
                     /\ pc' = [pc EXCEPT ![p] = "b_build"]
                     /\ err' = err
                ELSE /\ pc' = [pc EXCEPT ![p] = "b_aborted"]
                     /\ err' = [err EXCEPT ![p] = g.err]
                     /\ UNCHANGED <<recipe_file, gen_count>>
           ELSE /\ pc' = [pc EXCEPT ![p] = "b_build"]
                /\ UNCHANGED <<recipe_file, gen_count, err>>
    /\ UNCHANGED <<deps, readme, temp_dir, artifact_gen, calls, build_runs,
                   seen_recipe, pre_files, seen_dir, last_artifact,
                   testVars, fmtVars, pubVars>>

\* build_conda_package, lines 135-138: pixi build runs once and its exit code
\* decides
BuildRun(p) ==
    /\ pc[p] = "b_build"
    /\ \E rc \in {0, 1} :
         /\ build_runs' = [build_runs EXCEPT ![p] = Append(@, rc)]
         /\ pc' = [pc EXCEPT ![p] = after_build(rc)]
         /\ err' = [err EXCEPT ![p] = IF pc'[p] = "b_aborted" THEN "CalledProcessError" ELSE @]
    /\ seen_recipe' = [seen_recipe EXCEPT ![p] = recipe_file]
    /\ UNCHANGED <<deps, readme, recipe_file, temp_dir, artifact_gen, calls,
                   pre_recipe, gen_count, pre_files, seen_dir, last_artifact,
                   clobbered, testVars, fmtVars, pubVars>>

\* build_conda_package, line 139: os.remove("recipe.yaml")
BuildRemove(p) ==
    /\ pc[p] = "b_remove"
    /\ IF recipe_file = NoFile
       THEN /\ pc' = [pc EXCEPT ![p] = "b_aborted"]
            /\ err' = [err EXCEPT ![p] = "FileNotFoundError: recipe.yaml"]
            /\ UNCHANGED <<recipe_file, clobbered>>
       ELSE /\ recipe_file' = NoFile
            /\ pc' = [pc EXCEPT ![p] = "b_done"]
            /\ clobbered' = Clobber(p, {"b_build", "b_remove"})
            /\ err' = err
    /\ UNCHANGED <<deps, readme, temp_dir, artifact_gen, calls, pre_recipe,
                   gen_count, build_runs, seen_recipe, pre_files, seen_dir,
                   last_artifact, testVars, fmtVars, pubVars>>

StageWindow == {"s_rmtree", "s_mkdir", "s_compile"}

\* prepare_temp_directory is called; remove_temp_directory, line 112: the
\* existence check
StageCall(p, limit) ==
    /\ pc[p] \in {"idle", "s_done", "s_aborted"}
    /\ calls[p] < limit
    /\ calls' = [calls EXCEPT ![p] = @ + 1]
    /\ pre_files' = [pre_files EXCEPT ![p] = temp_dir]
    /\ clobbered' = [clobbered EXCEPT ![p] = FALSE]
    /\ err' = [err EXCEPT ![p] = ""]
    /\ seen_dir' = [seen_dir EXCEPT ![p] = "none"]
    /\ pc' = [pc EXCEPT ![p] = IF exists(temp_dir) THEN "s_rmtree" ELSE "s_mkdir"]
    /\ UNCHANGED <<deps, readme, recipe_file, temp_dir, artifact_gen, pre_recipe,
                   gen_count, build_runs, seen_recipe, last_artifact,
                   testVars, fmtVars, pubVars>>

\* remove_temp_directory, lines 113-114: shutil.rmtree(TEMP_DIR)
StageRmtree(p) ==
    /\ pc[p] = "s_rmtree"
    /\ IF temp_dir.kind = "dir"
       THEN /\ temp_dir' = NoDir
            /\ pc' = [pc EXCEPT ![p] = "s_mkdir"]
            /\ clobbered' = Clobber(p, StageWindow)
            /\ err' = err
       ELSE /\ pc' = [pc EXCEPT ![p] = "s_aborted"]
            /\ err' = [err EXCEPT ![p] = IF temp_dir.kind = "file"
                                            THEN "NotADirectoryError: TEMP_DIR"
                                            ELSE "FileNotFoundError: TEMP_DIR"]
            /\ UNCHANGED <<temp_dir, clobbered>>
    /\ UNCHANGED <<deps, readme, recipe_file, artifact_gen, calls, pre_recipe,
                   gen_count, build_runs, seen_recipe, pre_files, seen_dir,
                   last_artifact, testVars, fmtVars, pubVars>>

\* prepare_temp_directory, line 120: TEMP_DIR.mkdir()
StageMkdir(p) ==
    /\ pc[p] = "s_mkdir"
    /\ IF temp_dir.kind = "absent"
       THEN /\ temp_dir' = Dir({})
            /\ pc' = [pc EXCEPT ![p] = "s_compile"]
            /\ clobbered' = Clobber(p, StageWindow)
            /\ err' = err
       ELSE /\ pc' = [pc EXCEPT ![p] = "s_aborted"]
            /\ err' = [err EXCEPT ![p] = "FileExistsError: TEMP_DIR"]
            /\ UNCHANGED <<temp_dir, clobbered>>
    /\ UNCHANGED <<deps, readme, recipe_file, artifact_gen, calls, pre_recipe,
                   gen_count, build_runs, seen_recipe, pre_files, seen_dir,
                   last_artifact, testVars, fmtVars, pubVars>>

\* prepare_temp_directory, lines 121-125: mojo package writes the artifact, or
\* exits non-zero (it cannot write into a directory that is gone) and
\* check=True raises
StageCompile(p) ==
    /\ pc[p] = "s_compile"
    /\ seen_dir' = [seen_dir EXCEPT ![p] = temp_dir.kind]
    /\ \E rc \in {0, 1} :
         IF temp_dir.kind = "dir" /\ rc = 0
         THEN /\ artifact_gen' = artifact_gen + 1
              /\ temp_dir' = Dir(write_artifact(temp_dir.files, artifact_gen'))
              /\ last_artifact' = [last_artifact EXCEPT ![p] =
                                      [name |-> PackageFile, gen |-> artifact_gen']]
              /\ pc' = [pc EXCEPT ![p] = "s_done"]
              /\ err' = err
         ELSE /\ pc' = [pc EXCEPT ![p] = "s_aborted"]
              /\ err' = [err EXCEPT ![p] = "CalledProcessError"]
              /\ UNCHANGED <<artifact_gen, temp_dir, last_artifact>>
    /\ UNCHANGED <<deps, readme, recipe_file, calls, pre_recipe, gen_count,
                   build_runs, seen_recipe, pre_files, clobbered,
                   testVars, fmtVars, pubVars>>

IdlePkg == InitPkg({<<>>}, {TRUE}, {NoFile}, {NoDir})

\* the states TEMP_DIR may be in before a call
PriorDirs == {NoDir, PlainFile} \cup {Dir(F) : F \in SUBSET PriorFiles}

(***************************************************************************)
(* The specifications: one per command, and one of two concurrent          *)
(* instances of the packaging commands.                                    *)
(***************************************************************************)
TestInit == InitTest /\ IdleFormat /\ IdlePublish /\ IdlePkg
SpecTest == TestInit /\ [][NextTest]_vars

FormatInit == InitFormat /\ IdleTest /\ IdlePublish /\ IdlePkg
NextFormat == Format
SpecFormat == FormatInit /\ [][NextFormat]_vars

PublishInit == InitPublish /\ IdleTest /\ IdleFormat /\ IdlePkg
SpecPublish == PublishInit /\ [][NextPublish]_vars

BuildInit ==
    /\ IdleTest /\ IdleFormat /\ IdlePublish
    /\ InitPkg(DepConfigs, BOOLEAN, {NoFile, UserRecipe}, {NoDir})
NextBuild == BuildCheck(1) \/ BuildRun(1) \/ BuildRemove(1)
SpecBuild == BuildInit /\ [][NextBuild]_vars

StageInit ==
    /\ IdleTest /\ IdleFormat /\ IdlePublish
    /\ InitPkg({<<>>}, {TRUE}, {NoFile}, PriorDirs)
NextStage ==
    \/ StageCall(1, MaxCalls)
    \/ StageRmtree(1)
    \/ StageMkdir(1)
    \/ StageCompile(1)
SpecStage == StageInit /\ [][NextStage]_vars

RaceInit ==
    /\ IdleTest /\ IdleFormat /\ IdlePublish
    /\ InitPkg(SmallConfigs, BOOLEAN, {NoFile, UserRecipe}, PriorDirs)
NextRace ==
    \E p \in Procs :
        \/ BuildCheck(p)
        \/ BuildRun(p)
        \/ BuildRemove(p)
        \/ StageCall(p, 1)
        \/ StageRmtree(p)
        \/ StageMkdir(p)
        \/ StageCompile(p)
SpecRace == RaceInit /\ [][NextRace]_vars

(***************************************************************************)
(* The properties.                                                         *)
(***************************************************************************)
\* the returns of run_test logged so far
Ends == {k \in 1..Len(t_log) : t_log[k].ev = "end"}

\* C1: when main has ended, the exit status is 1 exactly when the failed count
\* is positive and 0 exactly when it is 0, the run that found no test file
\* included; until then the process has not exited.
C1_ExitStatus ==
    /\ t_pc \in {"start", "loop", "running", "summary"} => exit_code = NotExited
    /\ t_pc = "done" =>
         /\ exit_code \in {0, 1}
         /\ exit_code = 1 <=> failed > 0
         /\ exit_code = 0 <=> failed = 0
         /\ test_files = <<>> => exit_code = 0 /\ t_log = <<>>

\* a run with passing and failing files has exited with 1
C1_Witness ==
    /\ t_pc = "done"
    /\ exit_code = 1
    /\ passed > 0
    /\ failed > 0

\* C2: the external test command is launched for the files of the sorted
\* listing in order, each once, a launch only after the previous call has
\* returned, and the loop reaches the summary only when every file was run,
\* whatever failed.
C2_SequentialAllRun ==
    /\ \A k \in 1..Len(t_log) :
         /\ t_log[k].ev = (IF k % 2 = 1 THEN "start" ELSE "end")
         /\ (k + 1) \div 2 <= Len(test_files)
         /\ t_log[k].file = test_files[(k + 1) \div 2]
    /\ t_pc = "running" <=> Len(t_log) % 2 = 1
    /\ t_pc # "start" =>
         /\ \A a, b \in 1..Len(test_files) : a < b => StrLess(test_files[a], test_files[b])
         /\ Range(test_files) =
              {join(f.root, f.file) : f \in {g \in tree : EndsWith(g.file, DotMojo)}}
    /\ t_pc \in {"summary", "done"} => Len(t_log) = 2 * Len(test_files)

\* every file of a listing of two or more was run although the first call raised
C2_Witness ==
    /\ t_pc = "done"
    /\ Len(test_files) >= 2
    /\ Len(t_log) = 2 * Len(test_files)
    /\ t_log[2].outcome.kind = "raise"

\* C3: passed counts the files run so far that succeeded and failed those that
\* did not, so passed + failed is the number of files run so far, and the
\* number of discovered files when the summary is printed.
C3_Counts ==
    /\ passed = Cardinality({k \in Ends : t_log[k].result.success})
    /\ failed = Cardinality({k \in Ends : ~t_log[k].result.success})
    /\ passed + failed = Cardinality(Ends)
    /\ t_pc \in {"summary", "done"} => passed + failed = Len(test_files)

\* the summary of three files, some passed and some failed
C3_Witness ==
    /\ t_pc = "summary"
    /\ passed > 0
    /\ failed > 0
    /\ passed + failed = 3

\* C4: run_test reports success exactly when the command returned exit code 0;
\* when the invocation raised, it reports a failure with empty standard output
\* and the exception message as error output, and main goes on.
C4_RunTest ==
    \A k \in Ends :
        LET o == t_log[k].outcome
            r == t_log[k].result
        IN  /\ r.success <=> (o.kind = "exit" /\ o.returncode = 0)
            /\ o.kind = "exit" => r.stdout = o.stdout /\ r.stderr = o.stderr
            /\ o.kind = "raise" =>
                 /\ r = [success |-> FALSE, stdout |-> "", stderr |-> o.msg]
                 /\ IF k = Len(t_log) THEN t_pc \in {"loop", "summary", "done"} ELSE TRUE

\* an invocation raised and was counted as a failure
C4_Witness ==
    /\ Ends # {}
    /\ \E k \in Ends : t_log[k].outcome.kind = "raise" /\ ~t_log[k].result.success
    /\ failed > 0

\* the specifier's operator and version as the claim C8 words them
ClaimedOp(s) ==
    IF Len(s) >= 1 /\ s[1] \in {"<", ">"}
    THEN IF Len(s) >= 2 /\ s[2] = "=" THEN <<s[1], "=">> ELSE <<s[1]>>
    ELSE <<"=", "=">>

ClaimedStart(s) ==
    IF Len(s) >= 1 /\ s[1] \in {"<", ">"}
    THEN IF Len(s) >= 2 /\ s[2] = "=" THEN 2 ELSE 1
    ELSE 0

Claimed(n, s) ==
    n \o <<" ">> \o ClaimedOp(s) \o <<" ">> \o SliceFrom(s, ClaimedStart(s))

\* the specifiers on which format_dependency indexes past the end
TooShort(s) == s = <<>> \/ s = <<"<">> \/ s = <<">">>

\* C8 as stated: for every specifier, format_dependency returns the name, the
\* operator and the version the rule gives.
C8_Original ==
    fd_pc = "returned" => dep_result = Claimed(dep_name, dep_version)

\* C8 as amended: for every specifier that is not empty and not a lone "<" or
\* ">", format_dependency returns name, space, operator, space, version by the
\* rule, the operator is one of ==, <, >, <=, >= and a detected prefix plus the
\* version is the specifier; on the empty specifier and on a lone "<" or ">"
\* it raises IndexError.
C8_Format ==
    fd_pc = "returned" =>
        IF TooShort(dep_version)
        THEN dep_result = IndexError
        ELSE /\ dep_result = Claimed(dep_name, dep_version)
             /\ ClaimedOp(dep_version) \in
                  {<<"=", "=">>, <<"<">>, <<">">>, <<"<", "=">>, <<">", "=">>}
             /\ ClaimedStart(dep_version) > 0 =>
                  ClaimedOp(dep_version) \o SliceFrom(dep_version, ClaimedStart(dep_version))
                    = dep_version

\* ">=1" was formatted with the two-character operator
C8_Witness ==
    /\ fd_pc = "returned"
    /\ dep_name = <<"z">>
    /\ dep_version = <<">", "=", "1">>
    /\ dep_result = <<"z", " ", ">", "=", " ", "1">>

\* the names of build_dir0 ending in .conda that do not start with a dot
Matching == {n \in build_dir0 : EndsWith(n, DotConda) /\ Head(n) # "."}

Uploads == {k \in 1..Len(pub_log) : pub_log[k].ev = "upload"}
Removes == {k \in 1..Len(pub_log) : pub_log[k].ev = "remove"}

\* C5 as stated: publish makes one upload attempt and one deletion for every
\* file of the directory that has the artifact extension.
C5_Original ==
    pub_pc = "done" =>
        /\ Cardinality(Uploads) = Cardinality({n \in build_dir0 : EndsWith(n, DotConda)})
        /\ Cardinality(Removes) = Cardinality({n \in build_dir0 : EndsWith(n, DotConda)})

\* C5 as amended: with N the files whose names end in .conda and do not start
\* with a dot, publish makes exactly N upload attempts, one per file, and
\* deletes exactly those N files, whatever each upload's exit code; a file is
\* deleted right after its own attempt and before the next one, also when the
\* attempt exited non-zero; only an upload that could not be started ends the
\* command early.
C5_Publish ==
    /\ \A k \in 1..Len(pub_log) :
         IF k % 2 = 1
         THEN /\ pub_log[k].ev = "upload"
              /\ pub_log[k].file \in Matching
              /\ \A j \in 1..(k - 1) : pub_log[j].ev = "upload" => pub_log[j].file # pub_log[k].file
         ELSE /\ pub_log[k].ev = "remove"
              /\ pub_log[k].file = pub_log[k - 1].file
    /\ build_dir = build_dir0 \ {pub_log[k].file : k \in Removes}
    /\ pub_pc = "upload" => Len(pub_log) % 2 = 0
    /\ pub_pc = "remove" => Len(pub_log) % 2 = 1
    /\ pub_pc = "done" =>
         /\ Cardinality(Uploads) = Cardinality(Matching)
         /\ Cardinality(Removes) = Cardinality(Matching)
         /\ build_dir = build_dir0 \ Matching
    /\ pub_pc = "aborted" =>
         /\ Len(pub_log) % 2 = 1
         /\ pub_log[Len(pub_log)].outcome = "OSError"

\* two artifacts, both uploads exited non-zero, both files deleted
C5_Witness ==
    /\ pub_pc = "done"
    /\ Cardinality(Matching) = 2
    /\ \A k \in Uploads : pub_log[k].outcome = "CalledProcessError"
    /\ build_dir \cap Matching = {}

\* C6: when pixi build exits 0 the command goes on to the deletion and returns
\* with no recipe file on disk; a missing recipe was generated exactly once
\* before the build ran, an existing one was not regenerated and is what the
\* build saw.
C6_BuildSuccess ==
    /\ (build_runs[1] # <<>> /\ build_runs[1][1] = 0) => pc[1] \in {"b_remove", "b_done"}
    /\ pc[1] = "b_done" =>
         /\ build_runs[1] = <<0>>
         /\ recipe_file = NoFile
         /\ IF pre_recipe[1] = NoFile
            THEN /\ gen_count[1] = 1
                 /\ seen_recipe[1].origin = "generated"
                 /\ Len(seen_recipe[1].run) = Len(deps)
            ELSE /\ gen_count[1] = 0
                 /\ seen_recipe[1] = pre_recipe[1]

\* a recipe the user had written was built from and deleted
C6_Witness ==
    /\ pc[1] = "b_done"
    /\ pre_recipe[1] = UserRecipe
    /\ seen_recipe[1] = UserRecipe
    /\ recipe_file = NoFile

\* C7: when pixi build exits non-zero the command ends there with
\* CalledProcessError: the build ran once, the deletion is not reached and the
\* recipe file the build saw is still on disk.
C7_BuildFailure ==
    /\ Len(build_runs[1]) <= 1
    /\ (build_runs[1] # <<>> /\ build_runs[1][1] # 0) =>
         /\ pc[1] = "b_aborted"
         /\ err[1] = "CalledProcessError"
         /\ recipe_file # NoFile
         /\ recipe_file = seen_recipe[1]

\* the build failed on a recipe generated by this call, which stays on disk
C7_Witness ==
    /\ pc[1] = "b_aborted"
    /\ build_runs[1] = <<1>>
    /\ pre_recipe[1] = NoFile
    /\ recipe_file.origin = "generated"

\* C9: when prepare_temp_directory has returned, TEMP_DIR is a directory that
\* holds exactly the artifact this call compiled and nothing it held before;
\* a call starting from an absent or existing directory, the first as well as
\* a later one, fails only if the compiler fails.
C9_Staging ==
    /\ pc[1] = "s_done" =>
         /\ temp_dir = Dir({last_artifact[1]})
         /\ last_artifact[1] = [name |-> PackageFile, gen |-> artifact_gen]
         /\ temp_dir.files \cap pre_files[1].files = {}
    /\ pre_files[1].kind \in {"absent", "dir"} => err[1] \in {"", "CalledProcessError"}

\* a second call, starting from the directory the first one left, has returned
C9_Witness ==
    /\ pc[1] = "s_done"
    /\ calls[1] = 2
    /\ pre_files[1] = Dir({[name |-> PackageFile, gen |-> 1]})
    /\ temp_dir = Dir({[name |-> PackageFile, gen |-> 2]})

\* instance p's build ran with no recipe on disk, or its own deletion or
\* creation of the recipe file or of TEMP_DIR found the path changed, or its
\* compiler ran with TEMP_DIR gone
RaceFailure(p) ==
    \/ build_runs[p] # <<>> /\ seen_recipe[p] = NoFile
    \/ err[p] \in {"FileNotFoundError: recipe.yaml", "FileNotFoundError: TEMP_DIR",
                   "FileExistsError: TEMP_DIR"}
    \/ seen_dir[p] \in {"absent", "file"}

\* C10: with two instances, an instance's build runs without its recipe, or
\* its delete or create step fails, only when the other instance deleted or
\* created the shared path after this instance had checked it; the witness
\* shows that such an interleaving is reachable.
C10_RaceOnSharedPaths ==
    \A p \in Procs : RaceFailure(p) => clobbered[p]

\* instance 2 deleted the recipe instance 1 had checked: the build of
\* instance 1 ran without a recipe, and its own deletion then failed
C10_Witness ==
    /\ clobbered[1]
    /\ pc[2] = "b_done"
    /\ build_runs[1] = <<0>>
    /\ seen_recipe[1] = NoFile
    /\ err[1] = "FileNotFoundError: recipe.yaml"

=============================================================================
